---------------------------- MODULE Spec2Model ----------------------------
(***************************************************************************)
(* Context-bound authenticated encryption (clansofts/encry).               *)
(*                                                                         *)
(* The model follows src/src/kryptor/utilities.rs (KryptorService), the    *)
(* plain functions of src/src/utilities.rs and the EncryptionService       *)
(* wrapper of src/src/examples.rs.  Texts and byte strings are sequences   *)
(* of numbers 0..255 (a text is the sequence of its ASCII codes).          *)
(*                                                                         *)
(* The library primitives are modelled as follows:                         *)
(*   base64 (STANDARD engine)   the real algorithm, with canonical padding *)
(*   serde_json on String       the real quoting of '"' and '\'            *)
(*   HKDF-SHA256                an ideal KDF: deterministic, 32 bytes,     *)
(*                              a mix of the bytes of ikm and info         *)
(*   AES-256-GCM                an ideal AEAD with the layout of GCM: a    *)
(*                              keystream cipher followed by a 16-byte tag *)
(*                              over key, nonce and ciphertext             *)
(*   OsRng                      a free choice among the nonces of Nonces   *)
(***************************************************************************)
EXTENDS Integers, Sequences, FiniteSets, TLC

\* ------------------------------------------------------------------ bytes

\* The sum of the first n bytes of s.
RECURSIVE SumTo(_, _)
SumTo(s, n) == IF n = 0 THEN 0 ELSE s[n] + SumTo(s, n - 1)

\* The sum of the bytes of s.
Sum(s) == SumTo(s, Len(s))

\* The position-weighted sum of the first n bytes of s, byte i at weight i.
RECURSIVE WSumTo(_, _)
WSumTo(s, n) == IF n = 0 THEN 0 ELSE n * s[n] + WSumTo(s, n - 1)

\* The position-weighted sum of the bytes of s.
WSum(s) == WSumTo(s, Len(s))

\* n zero bytes: `[0u8; n]`.
Zeros(n) == [i \in 1..n |-> 0]

\* Results: Ok(v), Err(kind) of EncryptionError, and a panic of the thread.
Ok(v) == [tag |-> "Ok", val |-> v, err |-> "none"]
Err(e) == [tag |-> "Err", val |-> <<>>, err |-> e]
Panic == [tag |-> "Panic", val |-> <<>>, err |-> "panic"]
IsOk(r) == r.tag = "Ok"

\* ----------------------------------------------------------------- base64

\* The character of the standard alphabet for the 6-bit value v.
B64Char(v) ==
    IF v < 26 THEN 65 + v
    ELSE IF v < 52 THEN 97 + (v - 26)
    ELSE IF v < 62 THEN 48 + (v - 52)
    ELSE IF v = 62 THEN 43 ELSE 47

\* The 6-bit value of the character c, or -1 when c is not in the alphabet.
B64Val(c) ==
    IF c >= 65 /\ c <= 90 THEN c - 65
    ELSE IF c >= 97 /\ c <= 122 THEN c - 97 + 26
    ELSE IF c >= 48 /\ c <= 57 THEN c - 48 + 52
    ELSE IF c = 43 THEN 62
    ELSE IF c = 47 THEN 63
    ELSE -1

PadChar == 61

\* The byte of b at position i, and 0 past its end.
ByteAt(b, i) == IF i <= Len(b) THEN b[i] ELSE 0

\* general_purpose::STANDARD.encode: three bytes to four characters, the
\* last group padded with '='.  Character i belongs to the group g of three
\* bytes starting at byte 3 * g + 1.
B64Encode(b) ==
    [i \in 1..(4 * ((Len(b) + 2) \div 3)) |->
        LET g == (i - 1) \div 4
            k == (i - 1) % 4
            b1 == ByteAt(b, 3 * g + 1)
            b2 == ByteAt(b, 3 * g + 2)
            b3 == ByteAt(b, 3 * g + 3)
        IN IF k = 0 THEN B64Char(b1 \div 4)
           ELSE IF k = 1 THEN B64Char((b1 % 4) * 16 + (b2 \div 16))
           ELSE IF k = 2 THEN
               (IF 3 * g + 2 > Len(b) THEN PadChar
                ELSE B64Char((b2 % 16) * 4 + (b3 \div 64)))
           ELSE (IF 3 * g + 3 > Len(b) THEN PadChar ELSE B64Char(b3 % 64))]

\* The 6-bit value of character i of t, '=' counting as 0.
SextetAt(t, i) == IF t[i] = PadChar THEN 0 ELSE B64Val(t[i])

\* general_purpose::STANDARD.decode: the length is a multiple of four, '='
\* stands only at the end of the last quad (one or two), every other
\* character is in the alphabet and the unused bits of the last symbol are
\* zero.  Every failure is a base64::DecodeError.  Byte i comes from the
\* quad q starting at character 4 * q + 1.
B64Decode(t) ==
    LET n == Len(t)
        pads == IF n >= 2 /\ t[n] = PadChar /\ t[n - 1] = PadChar THEN 2
                ELSE IF n >= 1 /\ t[n] = PadChar THEN 1 ELSE 0
        bytes == [i \in 1..(3 * (n \div 4) - pads) |->
                    LET q == (i - 1) \div 3
                        k == (i - 1) % 3
                        a == SextetAt(t, 4 * q + 1)
                        b == SextetAt(t, 4 * q + 2)
                        c == SextetAt(t, 4 * q + 3)
                        d == SextetAt(t, 4 * q + 4)
                    IN IF k = 0 THEN a * 4 + (b \div 16)
                       ELSE IF k = 1 THEN (b % 16) * 16 + (c \div 4)
                       ELSE (c % 4) * 64 + d]
    IN  IF n % 4 # 0 THEN Err("Base64DecodeError")
        ELSE IF \E i \in 1..(n - pads) : B64Val(t[i]) = -1
             THEN Err("Base64DecodeError")
        ELSE IF pads = 2 /\ B64Val(t[n - 2]) % 16 # 0 THEN Err("Base64DecodeError")
        ELSE IF pads = 1 /\ B64Val(t[n - 1]) % 4 # 0 THEN Err("Base64DecodeError")
        ELSE Ok(bytes)

\* ------------------------------------------------------------- text, JSON

\* String::from_utf8 on the byte strings of this model: ASCII bytes and the
\* two-byte sequences (0xC2..0xDF, 0x80..0xBF) are text, any other byte
\* above 0x7F is not (lead bytes 0xE0 and above do not occur in the model).
RECURSIVE IsUtf8(_)
IsUtf8(b) ==
    IF Len(b) = 0 THEN TRUE
    ELSE IF b[1] < 128 THEN IsUtf8(Tail(b))
    ELSE IF b[1] >= 194 /\ b[1] <= 223 /\ Len(b) >= 2 /\ b[2] >= 128 /\ b[2] <= 191
         THEN IsUtf8(SubSeq(b, 3, Len(b)))
    ELSE FALSE

FromUtf8(b) == IF IsUtf8(b) THEN Ok(b) ELSE Err("Utf8Error")

Quote == 34
Backslash == 92

\* serde_json's escaping of the characters of a string ('"' and '\'; the
\* strings of the model hold no control character).
RECURSIVE JsonEscape(_)
JsonEscape(s) ==
    IF s = <<>> THEN <<>>
    ELSE (IF Head(s) = Quote \/ Head(s) = Backslash
          THEN << Backslash, Head(s) >> ELSE << Head(s) >>)
         \o JsonEscape(Tail(s))

\* serde_json::to_string(&String).
JsonOfString(s) == << Quote >> \o JsonEscape(s) \o << Quote >>

\* The characters of a JSON string body up to its closing quote: the
\* unescaped characters read and the rest after the quote, or a failure.
RECURSIVE JsonBody(_, _)
JsonBody(t, acc) ==
    IF t = <<>> THEN [ok |-> FALSE, str |-> <<>>, rest |-> <<>>]
    ELSE IF Head(t) = Quote THEN [ok |-> TRUE, str |-> acc, rest |-> Tail(t)]
    ELSE IF Head(t) = Backslash THEN
        IF Len(t) >= 2 /\ (t[2] = Quote \/ t[2] = Backslash)
        THEN JsonBody(SubSeq(t, 3, Len(t)), Append(acc, t[2]))
        ELSE [ok |-> FALSE, str |-> <<>>, rest |-> <<>>]
    ELSE IF Head(t) < 32 THEN [ok |-> FALSE, str |-> <<>>, rest |-> <<>>]
    ELSE JsonBody(Tail(t), Append(acc, Head(t)))

\* serde_json::from_str::<String>: one JSON string and nothing after it.
StringOfJson(t) ==
    IF t = <<>> \/ Head(t) # Quote THEN Err("SerializationError")
    ELSE LET p == JsonBody(Tail(t), <<>>)
         IN IF p.ok /\ p.rest = <<>> THEN Ok(p.str) ELSE Err("SerializationError")

\* The text {"keygen": of a serialized EncryptionContext.
KeygenPrefix == << 123, 34, 107, 101, 121, 103, 101, 110, 34, 58 >>

\* serde_json::to_string(&EncryptionContext { keygen }).
JsonOfContext(keygen) == KeygenPrefix \o JsonOfString(keygen) \o << 125 >>

\* -------------------------------------------------------- HKDF, AES-GCM

KeyLen == 32
NonceLen == 12
TagLen == 16

\* Hkdf::<Sha256>::new(None, &ikm) followed by expand(&info, &mut key) into
\* a 32-byte key: an ideal KDF.  The key is a deterministic mix of the
\* length and bytes of ikm and of info.  expand fails only for an output
\* longer than 255 * 32 bytes.
HkdfExpand(ikm, info, len) ==
    IF len > 255 * 32 THEN Err("HkdfError")
    ELSE LET m == << Len(ikm) >> \o ikm \o << Len(info) >> \o info
             s1 == Sum(m)
             s2 == WSum(m)
         IN Ok([j \in 1..len |-> (s1 + j * s2 + j * j) % 256])

\* The GCM keystream of n bytes under key and nonce.
KeyStream(key, nonce, n) ==
    LET base == Sum(key) + WSum(nonce)
    IN [i \in 1..n |-> (base + 7 * i) % 256]

\* The 16-byte authentication tag over key, nonce and ciphertext (no
\* associated data).
AeadTag(key, nonce, ct) ==
    LET m == key \o nonce \o << Len(ct) >> \o ct
        s1 == Sum(m)
        s2 == WSum(m)
    IN [j \in 1..TagLen |-> (s1 + j * s2) % 256]

\* Aes256Gcm::encrypt(nonce, plaintext): ciphertext followed by the tag.
AesGcmEncrypt(key, nonce, plaintext) ==
    LET ks == KeyStream(key, nonce, Len(plaintext)) \o <<>>
        ct == [i \in 1..Len(plaintext) |-> (plaintext[i] + ks[i]) % 256] \o <<>>
    IN Ok(ct \o AeadTag(key, nonce, ct))

\* Aes256Gcm::decrypt(nonce, ciphertext_and_tag): an aes_gcm::Error when the
\* buffer is shorter than a tag or the tag does not verify; no plaintext
\* then.
AesGcmDecrypt(key, nonce, buf) ==
    IF Len(buf) < TagLen THEN Err("AesGcmError")
    ELSE LET ct == SubSeq(buf, 1, Len(buf) - TagLen)
             tag == SubSeq(buf, Len(buf) - TagLen + 1, Len(buf))
             ks == KeyStream(key, nonce, Len(ct)) \o <<>>
         IN IF tag # AeadTag(key, nonce, ct) THEN Err("AesGcmError")
            ELSE Ok([i \in 1..Len(ct) |-> (ct[i] + 256 - ks[i]) % 256])

\* --------------------------------------------------------- KryptorService

\* The `?` operator: the value of an Ok result goes on into F, anything
\* else (an error, a panic) is what the function returns.
AndThen(r, F(_)) == IF IsOk(r) THEN F(r.val) ELSE r

\* Option::None of the derived-key cache (a key is a non-empty sequence).
None == <<>>

\* A method's outcome: the service after the call and what it returned.
Outcome(self, res) == [self |-> self, res |-> res]

\* KryptorService::new.
new(ikm_base64, context_base64) ==
    [ikm_base64 |-> ikm_base64,
     context_base64 |-> context_base64,
     derived_key |-> None]

\* with_context with the context dropped: every service gets the encoding
\* of the empty text.
with_context_dropped(ikm_base64, keygen) == Ok(new(ikm_base64, <<>>))

\* KryptorService::with_context, for an EncryptionContext { keygen }.
with_context(ikm_base64, keygen) ==
    LET context_json == JsonOfContext(keygen)
        context_base64 == B64Encode(context_json) \o <<>>
    IN Ok(new(ikm_base64, context_base64))

\* CacheKey with the cache written before the steps are known to have
\* succeeded: a failed derivation leaves a zeroed key behind.
CacheKeyEarly(self, key) ==
    Outcome([self EXCEPT !.derived_key =
                IF IsOk(key) THEN key.val ELSE Zeros(KeyLen)], key)

\* The end of derive_key: `self.derived_key = Some(key); Ok(key)`, reached
\* only when every step before it returned Ok.
CacheKey(self, key) ==
    Outcome(IF IsOk(key) THEN [self EXCEPT !.derived_key = key.val] ELSE self, key)

\* derive_key with the context left out of the expansion (empty info).
derive_key_no_context(self) ==
    IF self.derived_key # None THEN Outcome(self, Ok(self.derived_key))
    ELSE CacheKey(self,
            AndThen(B64Decode(self.ikm_base64), LAMBDA ikm :
            AndThen(B64Decode(self.context_base64), LAMBDA info :
            AndThen(HkdfExpand(ikm, <<>>, KeyLen), LAMBDA key :
            Ok(key \o <<>>)))))

\* derive_key with the root key and the context exchanged in the HKDF call.
derive_key_swapped(self) ==
    IF self.derived_key # None THEN Outcome(self, Ok(self.derived_key))
    ELSE CacheKey(self,
            AndThen(B64Decode(self.ikm_base64), LAMBDA ikm :
            AndThen(B64Decode(self.context_base64), LAMBDA info :
            AndThen(HkdfExpand(info, ikm, KeyLen), LAMBDA key :
            Ok(key \o <<>>)))))

\* derive_key with the context text itself, still base64, given to HKDF as
\* info (the decoding only validates it).
derive_key_encoded_info(self) ==
    IF self.derived_key # None THEN Outcome(self, Ok(self.derived_key))
    ELSE CacheKey(self,
            AndThen(B64Decode(self.ikm_base64), LAMBDA ikm :
            AndThen(B64Decode(self.context_base64), LAMBDA info :
            AndThen(HkdfExpand(ikm, self.context_base64, KeyLen), LAMBDA key :
            Ok(key \o <<>>)))))

\* KryptorService::derive_key.
derive_key(self) ==
    IF self.derived_key # None THEN Outcome(self, Ok(self.derived_key))
    ELSE CacheKey(self,
            AndThen(B64Decode(self.ikm_base64), LAMBDA ikm :
            AndThen(B64Decode(self.context_base64), LAMBDA info :
            AndThen(HkdfExpand(ikm, info, KeyLen), LAMBDA key :
            Ok(key \o <<>>)))))

\* encrypt_bytes without the call of OsRng.fill_bytes: the iv stays zero.
encrypt_bytes_zero_iv(self, plaintext, iv) ==
    LET d == derive_key(self)
    IN Outcome(d.self,
            AndThen(d.res, LAMBDA key :
            AndThen(AesGcmEncrypt(key, Zeros(NonceLen), plaintext), LAMBDA ciphertext :
            Ok(B64Encode(Zeros(NonceLen) \o ciphertext) \o <<>>))))

\* KryptorService::encrypt_bytes; iv is what OsRng.fill_bytes wrote.
encrypt_bytes(self, plaintext, iv) ==
    LET d == derive_key(self)
    IN Outcome(d.self,
            AndThen(d.res, LAMBDA key :
            AndThen(AesGcmEncrypt(key, iv, plaintext), LAMBDA ciphertext :
            Ok(B64Encode(iv \o ciphertext) \o <<>>))))

\* SplitAndDecrypt with a failed decryption turned into empty plaintext
\* (unwrap_or_default in place of `?`).
SplitAndDecryptOrDefault(key, data) ==
    IF Len(data) < NonceLen THEN Panic
    ELSE Ok(AesGcmDecrypt(key, SubSeq(data, 1, NonceLen),
                          SubSeq(data, NonceLen + 1, Len(data))).val)

\* `data.split_at(12)` and the decryption of what follows the iv: split_at
\* panics when data holds fewer than 12 bytes.
SplitAndDecrypt(key, data) ==
    IF Len(data) < NonceLen THEN Panic
    ELSE AesGcmDecrypt(key, SubSeq(data, 1, NonceLen),
                       SubSeq(data, NonceLen + 1, Len(data)))

\* KryptorService::decrypt_bytes.
decrypt_bytes(self, encoded_b64) ==
    LET d == derive_key(self)
    IN Outcome(d.self,
            AndThen(d.res, LAMBDA key :
            AndThen(B64Decode(encoded_b64), LAMBDA data :
            SplitAndDecrypt(key, data \o <<>>))))

\* KryptorService::encrypt_json, for a String.
encrypt_json(self, data, iv) ==
    encrypt_bytes(self, B64Encode(JsonOfString(data)) \o <<>>, iv)

\* decrypt_json without the base64 decoding of the decrypted text.
decrypt_json_no_decode(self, encrypted_base64) ==
    LET d == decrypt_bytes(self, encrypted_base64)
    IN Outcome(d.self,
            AndThen(d.res, LAMBDA decrypted_bytes :
            AndThen(FromUtf8(decrypted_bytes), LAMBDA json_string :
            StringOfJson(json_string))))

\* KryptorService::decrypt_json, for a String.
decrypt_json(self, encrypted_base64) ==
    LET d == decrypt_bytes(self, encrypted_base64)
    IN Outcome(d.self,
            AndThen(d.res, LAMBDA decrypted_bytes :
            AndThen(FromUtf8(decrypted_bytes), LAMBDA json_base64 :
            AndThen(B64Decode(json_base64), LAMBDA json_bytes :
            AndThen(FromUtf8(json_bytes \o <<>>), LAMBDA json_string :
            StringOfJson(json_string))))))

\* KryptorService::create_encrypted_package.
create_encrypted_package(self, data, iv) ==
    LET e == encrypt_json(self, data, iv)
    IN Outcome(e.self,
            AndThen(e.res, LAMBDA encrypted_data :
            Ok([data |-> encrypted_data, context |-> self.context_base64])))

\* decrypt_package with the service's own context in place of the
\* package's.
decrypt_package_own_context(self, package) ==
    Outcome(self,
            decrypt_json(new(self.ikm_base64, self.context_base64), package.data).res)

\* decrypt_package with the service built for the package written back
\* over self (`*self = service`).
decrypt_package_rebind(self, package) ==
    decrypt_json(new(self.ikm_base64, package.context), package.data)

\* KryptorService::decrypt_package: a new service with the package's
\* context; self is only read.
decrypt_package(self, package) ==
    Outcome(self,
            decrypt_json(new(self.ikm_base64, package.context), package.data).res)

\* ------------------------------------------- plain functions (utilities.rs)

\* Result::expect: the value of an Ok result, a panic otherwise.
Expect(r) == IF IsOk(r) THEN r ELSE Panic

\* derive_key(ikm_b64, info_b64): every failure is an expect, a panic.
plain_derive_key(ikm_b64, info_b64) ==
    AndThen(Expect(B64Decode(ikm_b64)), LAMBDA ikm :
    AndThen(Expect(B64Decode(info_b64)), LAMBDA info :
    AndThen(Expect(HkdfExpand(ikm, info, KeyLen)), LAMBDA key :
    Ok(key \o <<>>))))

\* decrypt_aes_gcm(encoded_b64, key).
decrypt_aes_gcm(encoded_b64, key) ==
    AndThen(Expect(B64Decode(encoded_b64)), LAMBDA data :
    Expect(SplitAndDecrypt(key, data \o <<>>)))

\* encrypt_aes_gcm(plaintext, key); iv is what OsRng.fill_bytes wrote.
encrypt_aes_gcm(plaintext, key, iv) ==
    AndThen(Expect(AesGcmEncrypt(key, iv, plaintext)), LAMBDA ciphertext :
    Ok(B64Encode(iv \o ciphertext) \o <<>>))

\* ------------------------------------------ EncryptionService (examples.rs)

\* AppConfig::new().ikm_base64.
AppConfigIkm ==
    << 114, 112, 104, 50, 112, 119, 84, 81, 67, 120, 43, 84, 68, 47, 108, 107,
       43, 55, 111, 57, 105, 103, 122, 81, 119, 53, 65, 55, 70, 85, 51, 43,
       83, 43, 90, 50, 52, 67, 102, 57, 68, 117, 107, 61 >>

\* EncryptionService::encrypt_with_context.
encrypt_with_context(data, keygen, iv) ==
    AndThen(with_context(AppConfigIkm, keygen), LAMBDA service :
    encrypt_json(service, data, iv).res)

\* EncryptionService::decrypt_with_context.
decrypt_with_context(encrypted_data, keygen) ==
    AndThen(with_context(AppConfigIkm, keygen), LAMBDA service :
    decrypt_json(service, encrypted_data).res)

\* ------------------------------------------------------------ the inputs

\* Payload strings hold at most MaxValueLen characters.
MaxValueLen == 1

\* Root keys: the configured one, the empty one (valid base64 of no bytes)
\* and "!!!!", which is not base64.
EmptyIkm == <<>>
BadIkm == << 33, 33, 33, 33 >>
ValidIkms == {AppConfigIkm, EmptyIkm}
Ikms == ValidIkms \cup {BadIkm}

\* Context values (the keygen of an EncryptionContext): "a" and "\"".
Keygens == { << 97 >>, << Quote >> }

\* Pre-encoded contexts given to `new`: the encodings of the contexts and
\* "A", which is not base64.
BadContext == << 65 >>
ValidContexts == {B64Encode(JsonOfContext(k)) \o <<>> : k \in Keygens}
ContextTexts == ValidContexts \cup {BadContext}

\* Payload values: the strings of backslashes, "" and "\" for MaxValueLen 1.
Values == { [i \in 1..n |-> Backslash] : n \in 0..MaxValueLen }

\* Raw plaintexts for encrypt_bytes: one byte that is not UTF-8.
RawPlaintexts == { << 255 >> }

\* What OsRng.fill_bytes may write into the 12-byte iv.
Nonces == { Zeros(NonceLen), [i \in 1..NonceLen |-> i] }

\* Envelope texts that no encryption produced: texts that decode to 0 and
\* to 11 bytes, one that decodes to 12 bytes, and "#" (not base64).
ShortEnvelopes == { <<>>, B64Encode(Zeros(NonceLen - 1)) \o <<>> }
NonceOnlyEnvelope == B64Encode(Zeros(NonceLen)) \o <<>>
BadEnvelope == << 35 >>

\* A changed byte is the byte plus one of these, modulo 256.
TamperDeltas == {1}

\* --------------------------------------------------------------- the state

VARIABLES
    service,    \* the KryptorService instance in use, or NoService
    kept,       \* the encryption whose envelope the caller holds, or NoEntry
    last        \* the last call: operation, arguments and what it returned

vars == << service, kept, last >>

NoService == [ikm_base64 |-> <<>>, context_base64 |-> <<>>, derived_key |-> << 0 >>]

\* A call: the operation, its main argument, the nonce OsRng gave it (<<>>
\* when it draws none), whether the caller keeps the envelope it returns,
\* and the result.
Call(op, arg, iv, keep, res) ==
    [op |-> op, arg |-> arg, iv |-> iv, keep |-> keep, res |-> res]

\* One successful encryption: the root key and context it was done under,
\* the nonce drawn, the data given (a value serialized as JSON when json
\* holds, raw bytes otherwise) and the envelope returned.
Entry(ikm_base64, context_base64, iv, json, data, out) ==
    [ikm_base64 |-> ikm_base64, context_base64 |-> context_base64,
     iv |-> iv, json |-> json, data |-> data, out |-> out]

NoEntry == Entry(<<>>, <<>>, <<>>, FALSE, <<>>, <<>>)

\* A panic ends the process: nothing runs after it.
Aborted == last.res.tag = "Panic"

Live == ~Aborted /\ service # NoService

\* What the caller holds after an encryption that returned res: the new
\* envelope when the call succeeded and the caller keeps it.
Kept(keep, ikm_base64, context_base64, iv, json, data, res) ==
    IF IsOk(res) /\ keep
    THEN Entry(ikm_base64, context_base64, iv, json, data, res.val)
    ELSE kept

\* The envelope texts a decrypt call is given: the envelope held and texts
\* no encryption produced.
EnvelopeInputs ==
    (IF kept = NoEntry THEN {} ELSE {kept.out})
        \cup ShortEnvelopes \cup {NonceOnlyEnvelope, BadEnvelope}

\* The packages a decrypt_package call is given: the envelope held with
\* each context text, and a text that is not base64 with a valid context.
PackageInputs ==
    (IF kept = NoEntry THEN {}
     ELSE {[data |-> kept.out, context |-> c] : c \in ContextTexts})
        \cup {[data |-> e, context |-> c] :
                 e \in {BadEnvelope, <<>>}, c \in ValidContexts}

\* The envelope held with one decoded byte changed.
TamperedEnvelopes ==
    IF kept = NoEntry THEN {}
    ELSE LET data == B64Decode(kept.out).val \o <<>>
         IN {B64Encode([data EXCEPT ![i] = (@ + d) % 256]) \o <<>> :
                i \in 1..Len(data), d \in TamperDeltas}

Init ==
    /\ service = NoService
    /\ kept = NoEntry
    /\ last = Call("start", <<>>, <<>>, FALSE, Ok(<<>>))

\* ------------------------------------------------ the calls on a service

New(ikm_base64, context_base64) ==
    /\ ~Aborted
    /\ service' = new(ikm_base64, context_base64)
    /\ last' = Call("new", << ikm_base64, context_base64 >>, <<>>, FALSE, Ok(<<>>))
    /\ UNCHANGED kept

WithContext(ikm_base64, keygen) ==
    /\ ~Aborted
    /\ LET r == with_context(ikm_base64, keygen)
       IN /\ IsOk(r)
          /\ service' = r.val
          /\ last' = Call("with_context", << ikm_base64, keygen >>, <<>>, FALSE,
                          Ok(<<>>))
    /\ UNCHANGED kept

DeriveKey ==
    /\ Live
    /\ LET r == derive_key(service)
       IN /\ service' = r.self
          /\ last' = Call("derive_key", <<>>, <<>>, FALSE, r.res)
    /\ UNCHANGED kept

EncryptBytes(plaintext, iv, keep) ==
    /\ Live
    /\ LET r == encrypt_bytes(service, plaintext, iv)
       IN /\ service' = r.self
          /\ last' = Call("encrypt_bytes", plaintext, iv, keep, r.res)
          /\ kept' = Kept(keep, service.ikm_base64, service.context_base64,
                          iv, FALSE, plaintext, r.res)

DecryptBytes(encoded_b64) ==
    /\ Live
    /\ LET r == decrypt_bytes(service, encoded_b64)
       IN /\ service' = r.self
          /\ last' = Call("decrypt_bytes", encoded_b64, <<>>, FALSE, r.res)
    /\ UNCHANGED kept

EncryptJson(data, iv, keep) ==
    /\ Live
    /\ LET r == encrypt_json(service, data, iv)
       IN /\ service' = r.self
          /\ last' = Call("encrypt_json", data, iv, keep, r.res)
          /\ kept' = Kept(keep, service.ikm_base64, service.context_base64,
                          iv, TRUE, data, r.res)

DecryptJson(encrypted_base64) ==
    /\ Live
    /\ LET r == decrypt_json(service, encrypted_base64)
       IN /\ service' = r.self
          /\ last' = Call("decrypt_json", encrypted_base64, <<>>, FALSE, r.res)
    /\ UNCHANGED kept

CreatePackage(data, iv, keep) ==
    /\ Live
    /\ LET r == create_encrypted_package(service, data, iv)
       IN /\ service' = r.self
          /\ last' = Call("create_encrypted_package", data, iv, keep, r.res)
          /\ kept' = Kept(keep, service.ikm_base64,
                          IF IsOk(r.res) THEN r.res.val.context ELSE <<>>,
                          iv, TRUE, data,
                          IF IsOk(r.res) THEN Ok(r.res.val.data) ELSE r.res)

DecryptPackage(package) ==
    /\ Live
    /\ LET r == decrypt_package(service, package)
       IN /\ service' = r.self
          /\ last' = Call("decrypt_package", package, <<>>, FALSE, r.res)
    /\ UNCHANGED kept

Next ==
    \/ \E i \in Ikms, c \in ContextTexts : New(i, c)
    \/ \E i \in Ikms, k \in Keygens : WithContext(i, k)
    \/ DeriveKey
    \/ \E p \in RawPlaintexts, n \in Nonces, keep \in BOOLEAN : EncryptBytes(p, n, keep)
    \/ \E e \in EnvelopeInputs : DecryptBytes(e)
    \/ \E v \in Values, n \in Nonces, keep \in BOOLEAN : EncryptJson(v, n, keep)
    \/ \E e \in EnvelopeInputs : DecryptJson(e)
    \/ \E v \in Values, n \in Nonces, keep \in BOOLEAN : CreatePackage(v, n, keep)
    \/ \E p \in PackageInputs : DecryptPackage(p)

Spec == Init /\ [][Next]_vars

\* ------------------------------------- tampering with the envelope held

NextTamper ==
    \/ \E k \in Keygens : WithContext(AppConfigIkm, k)
    \/ \E p \in RawPlaintexts, n \in Nonces : EncryptBytes(p, n, TRUE)
    \/ \E v \in Values, n \in Nonces : EncryptJson(v, n, TRUE)
    \/ \E e \in TamperedEnvelopes : DecryptBytes(e)
    \/ \E e \in TamperedEnvelopes : DecryptJson(e)

SpecTamper == Init /\ [][NextTamper]_vars

\* ------------------------- the plain functions and the EncryptionService

\* The root key and context a caller of the plain functions derived its key
\* from: key is what derive_key(ikm_b64, info_b64) returned.
PlainKeys ==
    {[ikm_b64 |-> i, info_b64 |-> c, key |-> plain_derive_key(i, c).val \o <<>>] :
        i \in ValidIkms, c \in ValidContexts}

PlainDeriveKey(ikm_b64, info_b64) ==
    /\ ~Aborted
    /\ last' = Call("plain_derive_key", << ikm_b64, info_b64 >>, <<>>, FALSE,
                    plain_derive_key(ikm_b64, info_b64))
    /\ UNCHANGED << service, kept >>

PlainEncrypt(plaintext, k, iv, keep) ==
    /\ ~Aborted
    /\ LET r == encrypt_aes_gcm(plaintext, k.key, iv)
       IN /\ last' = Call("encrypt_aes_gcm", plaintext, iv, keep, r)
          /\ kept' = Kept(keep, k.ikm_b64, k.info_b64, iv, FALSE, plaintext, r)
    /\ UNCHANGED service

PlainDecrypt(encoded_b64, k) ==
    /\ ~Aborted
    /\ last' = Call("decrypt_aes_gcm", encoded_b64, <<>>, FALSE,
                    decrypt_aes_gcm(encoded_b64, k.key))
    /\ UNCHANGED << service, kept >>

EncryptWithContext(data, keygen, iv, keep) ==
    /\ ~Aborted
    /\ LET r == encrypt_with_context(data, keygen, iv)
       IN /\ last' = Call("encrypt_with_context", << data, keygen >>, iv, keep, r)
          /\ kept' = Kept(keep, AppConfigIkm,
                          B64Encode(JsonOfContext(keygen)) \o <<>>, iv,
                          TRUE, data, r)
    /\ UNCHANGED service

DecryptWithContext(encrypted_data, keygen) ==
    /\ ~Aborted
    /\ last' = Call("decrypt_with_context", << encrypted_data, keygen >>, <<>>,
                    FALSE, decrypt_with_context(encrypted_data, keygen))
    /\ UNCHANGED << service, kept >>

NextPlain ==
    \/ \E i \in Ikms, c \in ContextTexts : PlainDeriveKey(i, c)
    \/ \E p \in RawPlaintexts, k \in PlainKeys, n \in Nonces, keep \in BOOLEAN :
          PlainEncrypt(p, k, n, keep)
    \/ \E e \in EnvelopeInputs, k \in PlainKeys : PlainDecrypt(e, k)
    \/ \E v \in Values, k \in Keygens, n \in Nonces, keep \in BOOLEAN :
          EncryptWithContext(v, k, n, keep)
    \/ \E e \in EnvelopeInputs, k \in Keygens : DecryptWithContext(e, k)

SpecPlain == Init /\ [][NextPlain]_vars

\* ------------------------------------------------------------- the claims

\* The service in use has the root key and context the envelope held was
\* produced under.
SameBinding ==
    /\ service # NoService
    /\ kept # NoEntry
    /\ service.ikm_base64 = kept.ikm_base64
    /\ service.context_base64 = kept.context_base64

\* C1 (round trip): decrypt_json, on a service with the root key and the
\* context of the service whose encrypt_json produced the envelope, returns
\* the value that was encrypted.
RoundTrip ==
    (last.op = "decrypt_json" /\ SameBinding /\ kept.json /\ last.arg = kept.out)
        => last.res = Ok(kept.data)

RoundTripWitness ==
    /\ last.op = "decrypt_json" /\ SameBinding /\ kept.json /\ last.arg = kept.out
    /\ kept.data = << Backslash >>
    /\ service.ikm_base64 = EmptyIkm
    /\ last.res = Ok(<< Backslash >>)

\* C2 (context separation): under one root key, decrypting with a context
\* whose encoding differs from the one the envelope was produced under
\* fails with the AES-GCM authentication error.
ContextSeparation ==
    (/\ last.op \in {"decrypt_json", "decrypt_bytes"}
     /\ service # NoService /\ kept # NoEntry /\ last.arg = kept.out
     /\ service.ikm_base64 = kept.ikm_base64
     /\ IsOk(B64Decode(service.context_base64))
     /\ B64Decode(service.context_base64) # B64Decode(kept.context_base64))
        => last.res = Err("AesGcmError")

ContextSeparationWitness ==
    /\ last.op = "decrypt_json"
    /\ service # NoService /\ kept # NoEntry /\ last.arg = kept.out
    /\ kept.json
    /\ service.ikm_base64 = kept.ikm_base64
    /\ service.context_base64 \in ValidContexts
    /\ service.context_base64 # kept.context_base64
    /\ last.res = Err("AesGcmError")

\* The byte strings a and b have one length and differ at exactly one
\* position.
OneByteChanged(a, b) ==
    /\ Len(a) = Len(b)
    /\ Cardinality({i \in 1..Len(a) : a[i] # b[i]}) = 1

\* The last call decrypted, under the binding of the envelope held, a text
\* whose decoded form is that envelope's with one byte changed.
TamperedDecrypt ==
    /\ last.op \in {"decrypt_bytes", "decrypt_json"}
    /\ SameBinding
    /\ IsOk(B64Decode(last.arg))
    /\ OneByteChanged(B64Decode(last.arg).val \o <<>>, B64Decode(kept.out).val \o <<>>)

\* C3 (tamper detection): decrypting an envelope with one decoded byte
\* changed (in the nonce, the ciphertext or the tag) under the same key
\* fails with the AES-GCM authentication error and returns no plaintext.
TamperDetected == TamperedDecrypt => last.res = Err("AesGcmError")

\* The changed byte lies in the ciphertext, between the nonce and the tag.
TamperDetectedWitness ==
    /\ TamperedDecrypt
    /\ last.op = "decrypt_json"
    /\ kept.json
    /\ LET a == B64Decode(last.arg).val \o <<>>
           b == B64Decode(kept.out).val \o <<>>
       IN \E i \in (NonceLen + 1)..(Len(a) - TagLen) : a[i] # b[i]
    /\ last.res = Err("AesGcmError")

\* C4 (length validation), as claimed: a decrypt call given valid base64
\* that decodes to fewer than 12 bytes returns a base64/encoding error.
ShortEnvelopeRejected ==
    (/\ last.op \in {"decrypt_bytes", "decrypt_json"}
     /\ IsOk(B64Decode(last.arg))
     /\ Len(B64Decode(last.arg).val) < NonceLen)
        => last.res = Err("Base64DecodeError")

\* C5 (no panic), as claimed: every call ends with a result or a typed
\* error, never with a panic.
NoPanic == last.res.tag # "Panic"

\* The envelope text the last call returned.
LastEnvelope ==
    IF last.op = "create_encrypted_package" THEN last.res.val.data ELSE last.res.val

\* The last call encrypted under the binding of the envelope held, and the
\* caller did not keep its envelope: the envelope held is an earlier call's.
SecondEncryption ==
    /\ last.op \in {"encrypt_bytes", "encrypt_json", "create_encrypted_package"}
    /\ IsOk(last.res)
    /\ ~last.keep
    /\ SameBinding

\* C6 (nonce freshness), as claimed: two encryptions under one derived key
\* never use the same nonce, and never return the same envelope text for
\* the same input.
NonceNeverReused ==
    SecondEncryption =>
        /\ last.iv # kept.iv
        /\ (last.arg = kept.data => LastEnvelope # kept.out)

\* C6, amended: the envelope starts with the nonce OsRng gave the call, two
\* encryptions under one derived key whose nonces differ return different
\* envelope texts, and with the same nonce and the same input they return
\* the same text (nothing in the code keeps OsRng from repeating a nonce).
NonceDecidesEnvelope ==
    SecondEncryption =>
        /\ SubSeq(B64Decode(LastEnvelope).val \o <<>>, 1, NonceLen) = last.iv
        /\ (last.iv # kept.iv => LastEnvelope # kept.out)
        /\ (last.iv = kept.iv /\ last.arg = kept.data => LastEnvelope = kept.out)

NonceDecidesEnvelopeWitness ==
    /\ SecondEncryption
    /\ last.op = "encrypt_json"
    /\ last.arg = kept.data
    /\ last.iv # kept.iv
    /\ LastEnvelope # kept.out

\* C7 (packages): decrypt_package, on a service with the root key of the
\* package's creator, returns the packaged value whatever the context and
\* the cache of that service; and a package carries the context encoding
\* of the service that created it.
PackageOpens ==
    /\ (/\ last.op = "decrypt_package"
        /\ service # NoService /\ kept # NoEntry /\ kept.json
        /\ service.ikm_base64 = kept.ikm_base64
        /\ last.arg = [data |-> kept.out, context |-> kept.context_base64])
           => last.res = Ok(kept.data)
    /\ (last.op = "create_encrypted_package" /\ IsOk(last.res))
           => last.res.val.context = service.context_base64

\* The opener is bound to another context than the package, its cache empty.
PackageOpensWitness ==
    /\ last.op = "decrypt_package"
    /\ service # NoService /\ kept # NoEntry /\ kept.json
    /\ service.ikm_base64 = kept.ikm_base64
    /\ service.context_base64 \in ValidContexts
    /\ service.context_base64 # kept.context_base64
    /\ service.derived_key = None
    /\ last.arg = [data |-> kept.out, context |-> kept.context_base64]
    /\ last.res = Ok(kept.data)

\* C8 (cache validity): the cache is empty or holds the key HKDF derives
\* from the decoded root key and context of the service; after a failed
\* derive_key it is empty.
CacheValid ==
    service # NoService =>
        /\ \/ service.derived_key = None
           \/ /\ IsOk(B64Decode(service.ikm_base64))
              /\ IsOk(B64Decode(service.context_base64))
              /\ service.derived_key =
                    HkdfExpand(B64Decode(service.ikm_base64).val \o <<>>,
                               B64Decode(service.context_base64).val \o <<>>,
                               KeyLen).val
        /\ (last.op = "derive_key" /\ ~IsOk(last.res)) => service.derived_key = None

\* derive_key failed on the context after the root key had decoded.
CacheValidWitness ==
    /\ service # NoService
    /\ last.op = "derive_key"
    /\ last.res = Err("Base64DecodeError")
    /\ IsOk(B64Decode(service.ikm_base64))
    /\ service.context_base64 = BadContext
    /\ service.derived_key = None

\* The key of a successful derive_key: 32 bytes, the key in the cache, and
\* the key the plain derive_key function returns for the same texts.
DeriveKeyResult ==
    (service # NoService /\ last.op = "derive_key" /\ IsOk(last.res)) =>
        /\ Len(last.res.val) = KeyLen
        /\ service.derived_key = last.res.val
        /\ last.res = plain_derive_key(service.ikm_base64, service.context_base64)

\* A derive_key call on a service whose cache is filled returns the cached
\* key and changes neither the service nor the envelope held.
DeriveKeyIdempotent ==
    (service # NoService /\ service.derived_key # None /\ last'.op = "derive_key") =>
        /\ service' = service
        /\ kept' = kept
        /\ last'.res = Ok(service.derived_key)

\* C9 (derivation is deterministic and idempotent).
DeriveDeterministic == []DeriveKeyResult /\ [][DeriveKeyIdempotent]_vars

\* derive_key has returned, on the service of the built-in root key, the key
\* the plain function derives and the cache holds.
DeriveDeterministicWitness ==
    /\ service # NoService
    /\ last.op = "derive_key"
    /\ IsOk(last.res)
    /\ service.ikm_base64 = AppConfigIkm
    /\ last.res = plain_derive_key(service.ikm_base64, service.context_base64)
    /\ service.derived_key = last.res.val

\* C10 (different contexts, different envelopes): encrypt_with_context of
\* the same data under two contexts returns two different envelope texts.
ContextsDiffer ==
    (/\ last.op = "encrypt_with_context"
     /\ IsOk(last.res)
     /\ ~last.keep
     /\ kept # NoEntry /\ kept.json
     /\ kept.ikm_base64 = AppConfigIkm
     /\ kept.data = last.arg[1]
     /\ kept.context_base64 # B64Encode(JsonOfContext(last.arg[2])))
        => last.res.val # kept.out

\* Both calls drew the same nonce.
ContextsDifferWitness ==
    /\ last.op = "encrypt_with_context"
    /\ IsOk(last.res)
    /\ ~last.keep
    /\ kept # NoEntry /\ kept.json
    /\ kept.ikm_base64 = AppConfigIkm
    /\ kept.data = last.arg[1]
    /\ kept.context_base64 # B64Encode(JsonOfContext(last.arg[2]))
    /\ kept.iv = last.iv
    /\ last.res.val # kept.out

\* The service holds the context text with_context builds for keygen k, and
\* its last call, derive_key, returned a key.
DerivedUnder(k) ==
    /\ service # NoService
    /\ last.op = "derive_key"
    /\ IsOk(last.res)
    /\ service.context_base64 = with_context(service.ikm_base64, k).val.context_base64

\* C11 (context canonicalization): on a service built by with_context for
\* a context c, the info bytes HKDF expands are the bytes of the JSON text
\* of c (the base64 encoding of with_context and the decoding of derive_key
\* cancel), and under one root key another context gets the same key if
\* and only if its JSON text is the same, byte for byte.
ContextCanonical ==
    \A k \in Keygens :
        DerivedUnder(k) =>
            /\ B64Decode(service.context_base64).val \o <<>> = JsonOfContext(k)
            /\ last.res.val =
                  HkdfExpand(B64Decode(service.ikm_base64).val \o <<>>,
                             JsonOfContext(k), KeyLen).val
            /\ \A k2 \in Keygens :
                  (derive_key(with_context(service.ikm_base64, k2).val).res = last.res)
                      <=> (JsonOfContext(k2) = JsonOfContext(k))

\* The key derived under the built-in root key for the context whose JSON
\* text holds an escaped quote.
ContextCanonicalWitness ==
    /\ DerivedUnder(<< Quote >>)
    /\ service.ikm_base64 = AppConfigIkm
    /\ B64Decode(service.context_base64).val \o <<>> = JsonOfContext(<< Quote >>)
    /\ Len(JsonOfContext(<< Quote >>)) = Len(KeygenPrefix) + 5
    /\ last.res # derive_key(with_context(AppConfigIkm, << 97 >>).val).res

\* The key derive_key gives a service with this root key and context.
KeyOf(ikm_base64, context_base64) ==
    derive_key(new(ikm_base64, context_base64)).res

\* A decrypt_package call that returned, with a value or with an error,
\* left the root key, the context text and the cache of the service as
\* they were.
DecryptPackageFrame ==
    (service # NoService /\ last'.op = "decrypt_package" /\ last'.res.tag # "Panic") =>
        /\ service'.ikm_base64 = service.ikm_base64
        /\ service'.context_base64 = service.context_base64
        /\ service'.derived_key = service.derived_key

\* After a decrypt_package call the next call on the service gets the key
\* of the service's own context, which is not the key of the package's
\* context when the two contexts decode to different bytes.
OwnKeyAfterPackage ==
    (service # NoService /\ last.op = "decrypt_package" /\ last.res.tag # "Panic") =>
        /\ derive_key(service).res = KeyOf(service.ikm_base64, service.context_base64)
        /\ (/\ IsOk(derive_key(service).res)
            /\ IsOk(B64Decode(last.arg.context))
            /\ B64Decode(last.arg.context) # B64Decode(service.context_base64))
               => derive_key(service).res # KeyOf(service.ikm_base64, last.arg.context)

\* C12 (frame of decrypt_package): decrypt_package, whether it succeeds or
\* fails, leaves the root key, the context text and the derived-key cache
\* of the service unchanged, so later calls on the service use the key of
\* its own context and not the package's.
DecryptPackageKeepsService == [][DecryptPackageFrame]_vars /\ []OwnKeyAfterPackage

\* A service with a filled cache has opened a package of another context
\* and still holds the key of its own context.
DecryptPackageKeepsServiceWitness ==
    /\ service # NoService /\ kept # NoEntry
    /\ last.op = "decrypt_package"
    /\ last.arg = [data |-> kept.out, context |-> kept.context_base64]
    /\ last.res = Ok(kept.data)
    /\ service.context_base64 \in ValidContexts
    /\ service.context_base64 # kept.context_base64
    /\ service.derived_key # None
    /\ Ok(service.derived_key) = KeyOf(service.ikm_base64, service.context_base64)
    /\ Ok(service.derived_key) # KeyOf(service.ikm_base64, kept.context_base64)

=============================================================================
